---- MODULE Spec2Model ----
(***************************************************************************)
(* A model of SceneManager (7-1 Project/Source/SceneManager.cpp): the      *)
(* texture registry (m_textureIDs, m_loadedTextures), the material list    *)
(* (m_objectMaterials), the shader uniforms the bridge methods write, and  *)
(* the OpenGL texture state the registry methods touch.                    *)
(*                                                                         *)
(* Every method of the class is an operator with the method's name that    *)
(* maps a program state (a record, see State) to the program state after   *)
(* the call; the actions Call... apply one method to the variables.        *)
(* Floating point literals are written in thousandths (0.3f is 300).      *)
(***************************************************************************)
EXTENDS Integers, Sequences, FiniteSets, TLC

VARIABLES
    m_pShaderManager,   \* "NULL" or "shader": the pointer the constructor stored
    m_textureIDs,       \* [0..15 -> [tag, ID]]: the texture slots
    m_loadedTextures,   \* number of slots in use
    m_objectMaterials,  \* sequence of OBJECT_MATERIAL
    m_basicMeshes,      \* "NULL", or the meshes the ShapeMeshes object has loaded, in order
    uniforms,           \* uniform values of the shader program behind m_pShaderManager
    gl,                 \* OpenGL texture state: name generator, active unit, unit bindings
    ub,                 \* "none", or the undefined behaviour the program has run into
    trace,              \* calls made by the last top-level call, in order
    call,               \* the last top-level call: method, arguments, return value
    okLoads,            \* history: <<tag, handle>> of every successful load, in order
    destroyed,          \* history: DestroyGLTextures has run
    decoded,            \* history: what stbi_load yielded for the files of LoadSceneTextures
    pc                  \* position in the life cycle of the object

vars == <<m_pShaderManager, m_textureIDs, m_loadedTextures, m_objectMaterials,
          m_basicMeshes, uniforms, gl, ub, trace, call, okLoads, destroyed, decoded, pc>>

(***************************************************************************)
(* Program constants                                                       *)
(***************************************************************************)
TextureSlots == 16

UnsetID == -1

UnsetTag == "/0"

(***************************************************************************)
(* Bounds of the model                                                     *)
(***************************************************************************)
\* glGenTextures hands out the names 1..MaxNames in the specification Spec
MaxNames == 4

\* glGenTextures hands out the names 1..BridgeNames in the specification SpecBridge
BridgeNames == 2

\* glGenTextures hands out the names 1..CapNames in the specification SpecCap
CapNames == 18

\* DefineObjectMaterials is called at most MaxDefines times
MaxDefines == 1

\* tags the callers load textures under
LoadTags == {"table", "backdrop"}

\* tags the callers look up (textures and materials)
QueryTags == {"table", "backdrop", "wood", UnsetTag}

\* what stbi_load yields for a file: 0 is a NULL image (decode failure),
\* 1..4 the channel count of a decoded image
DecodeOutcomes == 0..4

\* what stbi_load yields for a file of LoadSceneTextures
RunOutcomes == {0, 3}

\* colours passed to SetShaderColor, <<r, g, b, a>>
Colors == {<<1000, 500, 100, 1000>>}

\* scales passed to SetTextureUVScale, <<u, v>>
UVScales == {<<5000, 1000>>}

(***************************************************************************)
(* Helpers                                                                 *)
(***************************************************************************)
Min(S) == CHOOSE x \in S : \A y \in S : x <= y

Called(op, tag, channels, ret, out) ==
    [op |-> op, tag |-> tag, channels |-> channels, ret |-> ret, out |-> out]

Event(name, arg) == [name |-> name, arg |-> arg]

Log(s, name, arg) == [s EXCEPT !.trace = Append(@, Event(name, arg))]

\* the method returns value
Return(s, value) == [Log(s, "return", value) EXCEPT !.ret = value]

\* the program state after the next statement, unless s is past undefined behaviour
Step(s, Statement(_)) == IF s.ub # "none" THEN s ELSE Statement(s)

Vec3(x, y, z) == <<x, y, z>>

\* the program state as one record
State ==
    [ m_pShaderManager  |-> m_pShaderManager,
      m_textureIDs      |-> m_textureIDs,
      m_loadedTextures  |-> m_loadedTextures,
      m_objectMaterials |-> m_objectMaterials,
      m_basicMeshes     |-> m_basicMeshes,
      uniforms          |-> uniforms,
      gl                |-> gl,
      ub                |-> ub,
      trace             |-> << >>,
      ret               |-> "void" ]

\* the variables take the values of the program state s
Becomes(s) ==
    /\ m_pShaderManager'  = s.m_pShaderManager
    /\ m_textureIDs'      = s.m_textureIDs
    /\ m_loadedTextures'  = s.m_loadedTextures
    /\ m_objectMaterials' = s.m_objectMaterials
    /\ m_basicMeshes'     = s.m_basicMeshes
    /\ uniforms'          = s.uniforms
    /\ gl'                = s.gl
    /\ ub'                = s.ub
    /\ trace'             = s.trace

(***************************************************************************)
(* The OpenGL calls the registry makes                                     *)
(***************************************************************************)
\* glGenTextures(1, &id): a name not handed out before
glGenTextures(s) == [s EXCEPT !.gl.nextName = @ + 1]

GenName(s) == s.gl.nextName

\* glBindTexture(GL_TEXTURE_2D, id): binds on the active unit
glBindTexture(s, id) == [s EXCEPT !.gl.units[s.gl.activeUnit] = id]

\* glActiveTexture(GL_TEXTURE0 + i)
glActiveTexture(s, i) == [s EXCEPT !.gl.activeUnit = i]

(***************************************************************************)
(* SceneManager::SceneManager                                              *)
(***************************************************************************)
ZeroMaterial ==
    [ ambientColor |-> <<0, 0, 0>>, ambientStrength |-> 0,
      diffuseColor |-> <<0, 0, 0>>, specularColor |-> <<0, 0, 0>>,
      shininess |-> 0 ]

ZeroLight ==
    [ position |-> Vec3(0, 0, 0), ambientColor |-> Vec3(0, 0, 0),
      diffuseColor |-> Vec3(0, 0, 0), specularColor |-> Vec3(0, 0, 0),
      focalStrength |-> 0, specularIntensity |-> 0 ]

\* uniforms of a freshly linked program are zero
InitUniforms ==
    [ bUseTexture   |-> 0,
      objectTexture |-> 0,
      objectColor   |-> <<0, 0, 0, 0>>,
      UVscale       |-> <<0, 0>>,
      material      |-> ZeroMaterial,
      model         |-> <<[kind |-> "zero"]>>,
      bUseLighting  |-> 0,
      lightSources  |-> [i \in 0..2 |-> ZeroLight] ]

InitGL ==
    [ nextName   |-> 1,
      activeUnit |-> 0,
      units      |-> [i \in 0..(TextureSlots - 1) |-> 0] ]

SceneManager(pShaderManager) ==
    /\ m_pShaderManager = pShaderManager
    /\ m_textureIDs = [i \in 0..(TextureSlots - 1) |-> [tag |-> UnsetTag, ID |-> UnsetID]]
    /\ m_loadedTextures = 0
    /\ m_objectMaterials = << >>
    /\ m_basicMeshes = << >>

(***************************************************************************)
(* SceneManager::CreateGLTexture.  channels is what stbi_load yields for   *)
(* the file (0: NULL image).  clobber is the value m_loadedTextures is     *)
(* left with when the registration writes past the end of m_textureIDs,    *)
(* which is undefined behaviour.                                           *)
(***************************************************************************)
\* the registration with the count advanced before the slot is written
RegisterTextureAfterIncrement(s, textureID, tag, clobber) ==
    IF s.m_loadedTextures + 1 < TextureSlots
    THEN [s EXCEPT !.m_textureIDs[s.m_loadedTextures + 1] = [tag |-> tag, ID |-> textureID],
                   !.m_loadedTextures = @ + 1]
    ELSE [s EXCEPT !.ub = "out_of_bounds_write",
                   !.m_loadedTextures = clobber]

RegisterTexture(s, textureID, tag, clobber) ==
    IF s.m_loadedTextures < TextureSlots
    THEN [s EXCEPT !.m_textureIDs[s.m_loadedTextures] = [tag |-> tag, ID |-> textureID],
                   !.m_loadedTextures = @ + 1]
    ELSE [s EXCEPT !.ub = "out_of_bounds_write",
                   !.m_loadedTextures = clobber]

\* the load with the slot registered before the channel count is looked at
CreateGLTextureRegistersFirst(s, channels, tag, clobber) ==
    LET s0 == Log(s, "CreateGLTexture", tag)
    IN  IF channels # 0
        THEN LET textureID == GenName(s0)
                 s1 == RegisterTexture(glBindTexture(glGenTextures(s0), textureID),
                                       textureID, tag, clobber)
             IN  IF channels \in {3, 4}
                 THEN Step(s1, LAMBDA x : Return(glBindTexture(x, 0), TRUE))
                 ELSE Step(s1, LAMBDA x : Return(x, FALSE))
        ELSE Return(s0, FALSE)

CreateGLTexture(s, channels, tag, clobber) ==
    LET s0 == Log(s, "CreateGLTexture", tag)
    IN  IF channels # 0
        THEN LET textureID == GenName(s0)
                 s1 == glBindTexture(glGenTextures(s0), textureID)
             IN  IF channels \in {3, 4}
                 THEN LET s2 == RegisterTexture(glBindTexture(s1, 0), textureID, tag, clobber)
                      IN  Step(s2, LAMBDA x : Return(x, TRUE))
                 ELSE Return(s1, FALSE)
        ELSE Return(s0, FALSE)

(***************************************************************************)
(* SceneManager::BindGLTextures                                            *)
(***************************************************************************)
\* the binding loop without the switch of the active texture unit
RECURSIVE BindGLTexturesLoopOneUnit(_, _)
BindGLTexturesLoopOneUnit(s, i) ==
    IF i < s.m_loadedTextures
    THEN BindGLTexturesLoopOneUnit(glBindTexture(s, s.m_textureIDs[i].ID), i + 1)
    ELSE s

RECURSIVE BindGLTexturesLoop(_, _)
BindGLTexturesLoop(s, i) ==
    IF i < s.m_loadedTextures
    THEN BindGLTexturesLoop(glBindTexture(glActiveTexture(s, i), s.m_textureIDs[i].ID), i + 1)
    ELSE s

BindGLTextures(s) ==
    [BindGLTexturesLoop(Log(s, "BindGLTextures", "none"), 0) EXCEPT !.ret = "void"]

(***************************************************************************)
(* SceneManager::DestroyGLTextures                                         *)
(***************************************************************************)
RECURSIVE DestroyGLTexturesLoop(_, _)
DestroyGLTexturesLoop(s, i) ==
    IF i < s.m_loadedTextures
    THEN DestroyGLTexturesLoop(
             [glGenTextures(s) EXCEPT !.m_textureIDs[i].ID = GenName(s)], i + 1)
    ELSE s

DestroyGLTextures(s) ==
    [DestroyGLTexturesLoop(Log(s, "DestroyGLTextures", "none"), 0) EXCEPT !.ret = "void"]

(***************************************************************************)
(* SceneManager::FindTextureID and SceneManager::FindTextureSlot           *)
(***************************************************************************)
\* the scan that does not stop at the first match
RECURSIVE FindTextureIDLoopLastMatch(_, _, _)
FindTextureIDLoopLastMatch(s, tag, index) ==
    IF index < s.m_loadedTextures
    THEN LET rest == FindTextureIDLoopLastMatch(s, tag, index + 1)
         IN  IF s.m_textureIDs[index].tag = tag /\ rest = -1
             THEN s.m_textureIDs[index].ID
             ELSE rest
    ELSE -1

RECURSIVE FindTextureIDLoop(_, _, _)
FindTextureIDLoop(s, tag, index) ==
    IF index < s.m_loadedTextures
    THEN IF s.m_textureIDs[index].tag = tag
         THEN s.m_textureIDs[index].ID
         ELSE FindTextureIDLoop(s, tag, index + 1)
    ELSE -1

FindTextureID(s, tag) == FindTextureIDLoop(s, tag, 0)

\* the scan over all the slots of the array instead of the loaded ones
RECURSIVE FindTextureSlotLoopAllSlots(_, _, _)
FindTextureSlotLoopAllSlots(s, tag, index) ==
    IF index < TextureSlots
    THEN IF s.m_textureIDs[index].tag = tag
         THEN index
         ELSE FindTextureSlotLoopAllSlots(s, tag, index + 1)
    ELSE -1

RECURSIVE FindTextureSlotLoop(_, _, _)
FindTextureSlotLoop(s, tag, index) ==
    IF index < s.m_loadedTextures
    THEN IF s.m_textureIDs[index].tag = tag
         THEN index
         ELSE FindTextureSlotLoop(s, tag, index + 1)
    ELSE -1

FindTextureSlot(s, tag) == FindTextureSlotLoop(s, tag, 0)

(***************************************************************************)
(* SceneManager::FindMaterial.  material is the caller's object the        *)
(* method writes through the reference; the result is the return value and *)
(* that object after the call.                                             *)
(***************************************************************************)
MaterialFields(m) ==
    [ ambientColor |-> m.ambientColor, ambientStrength |-> m.ambientStrength,
      diffuseColor |-> m.diffuseColor, specularColor |-> m.specularColor,
      shininess |-> m.shininess ]

\* the search that copies every field of the preset but its shininess
RECURSIVE FindMaterialLoopFourFields(_, _, _, _)
FindMaterialLoopFourFields(s, tag, material, index) ==
    IF index <= Len(s.m_objectMaterials)
    THEN IF s.m_objectMaterials[index].tag = tag
         THEN [MaterialFields(s.m_objectMaterials[index]) EXCEPT !.shininess = material.shininess]
         ELSE FindMaterialLoopFourFields(s, tag, material, index + 1)
    ELSE material

RECURSIVE FindMaterialLoop(_, _, _, _)
FindMaterialLoop(s, tag, material, index) ==
    IF index <= Len(s.m_objectMaterials)
    THEN IF s.m_objectMaterials[index].tag = tag
         THEN MaterialFields(s.m_objectMaterials[index])
         ELSE FindMaterialLoop(s, tag, material, index + 1)
    ELSE material

FindMaterial(s, tag, material) ==
    IF Len(s.m_objectMaterials) = 0
    THEN [ret |-> FALSE, material |-> material]
    ELSE [ret |-> TRUE, material |-> FindMaterialLoop(s, tag, material, 1)]

(***************************************************************************)
(* SceneManager::SetShaderColor, SetShaderTexture, SetTextureUVScale       *)
(***************************************************************************)
\* the colour write without the write of the use-texture flag
SetShaderColorKeepsFlag(s, color) ==
    LET s0 == Log(s, "SetShaderColor", color)
    IN  IF s0.m_pShaderManager # "NULL"
        THEN [s0 EXCEPT !.uniforms.objectColor = color, !.ret = "void"]
        ELSE [s0 EXCEPT !.ret = "void"]

SetShaderColor(s, color) ==
    LET s0 == Log(s, "SetShaderColor", color)
    IN  IF s0.m_pShaderManager # "NULL"
        THEN [s0 EXCEPT !.uniforms.bUseTexture = 0,
                        !.uniforms.objectColor = color,
                        !.ret = "void"]
        ELSE [s0 EXCEPT !.ret = "void"]

\* the sampler set to the texture name instead of the slot
SetShaderTextureWritesID(s, textureTag) ==
    LET s0 == Log(s, "SetShaderTexture", textureTag)
    IN  IF s0.m_pShaderManager # "NULL"
        THEN [s0 EXCEPT !.uniforms.bUseTexture = 1,
                        !.uniforms.objectTexture = FindTextureID(s0, textureTag),
                        !.ret = "void"]
        ELSE [s0 EXCEPT !.ret = "void"]

SetShaderTexture(s, textureTag) ==
    LET s0 == Log(s, "SetShaderTexture", textureTag)
    IN  IF s0.m_pShaderManager # "NULL"
        THEN [s0 EXCEPT !.uniforms.bUseTexture = 1,
                        !.uniforms.objectTexture = FindTextureSlot(s0, textureTag),
                        !.ret = "void"]
        ELSE [s0 EXCEPT !.ret = "void"]

SetTextureUVScale(s, uv) ==
    LET s0 == Log(s, "SetTextureUVScale", uv)
    IN  IF s0.m_pShaderManager # "NULL"
        THEN [s0 EXCEPT !.uniforms.UVscale = uv, !.ret = "void"]
        ELSE [s0 EXCEPT !.ret = "void"]

(***************************************************************************)
(* SceneManager::SetShaderMaterial.  uninit is the indeterminate value of  *)
(* the local OBJECT_MATERIAL, which has no initialiser.  The uniform       *)
(* writes go through m_pShaderManager without a NULL test.                 *)
(***************************************************************************)
\* the write that also moves the preset it used to the front of the list
SetShaderMaterialMovesToFront(s, materialTag, uninit) ==
    LET s0 == Log(s, "SetShaderMaterial", materialTag)
    IN  IF Len(s0.m_objectMaterials) > 0
        THEN LET found == FindMaterial(s0, materialTag, uninit)
                 others == SelectSeq(s0.m_objectMaterials, LAMBDA m : m.tag # materialTag)
                 same == SelectSeq(s0.m_objectMaterials, LAMBDA m : m.tag = materialTag)
             IN  IF found.ret = TRUE
                 THEN IF s0.m_pShaderManager # "NULL"
                      THEN [s0 EXCEPT !.uniforms.material = found.material,
                                      !.m_objectMaterials = same \o others,
                                      !.ret = "void"]
                      ELSE [s0 EXCEPT !.ub = "null_dereference", !.ret = "void"]
                 ELSE [s0 EXCEPT !.ret = "void"]
        ELSE [s0 EXCEPT !.ret = "void"]

SetShaderMaterial(s, materialTag, uninit) ==
    LET s0 == Log(s, "SetShaderMaterial", materialTag)
    IN  IF Len(s0.m_objectMaterials) > 0
        THEN LET found == FindMaterial(s0, materialTag, uninit)
             IN  IF found.ret = TRUE
                 THEN IF s0.m_pShaderManager # "NULL"
                      THEN [s0 EXCEPT !.uniforms.material = found.material,
                                      !.ret = "void"]
                      ELSE [s0 EXCEPT !.ub = "null_dereference", !.ret = "void"]
                 ELSE [s0 EXCEPT !.ret = "void"]
        ELSE [s0 EXCEPT !.ret = "void"]

(***************************************************************************)
(* SceneManager::LoadSceneTextures.  decode[i] is what stbi_load yields    *)
(* for the i-th file.                                                      *)
(***************************************************************************)
SceneTextures ==
    << [file |-> "rusticwood.jpg",                    tag |-> "table"],
       [file |-> "cheese_wheel.jpg",                  tag |-> "cheese_wheel_side"],
       [file |-> "cheese_top.jpg",                    tag |-> "cheese_wheel_top"],
       [file |-> "breadcrust.jpg",                    tag |-> "breadcrust"],
       [file |-> "backdrop.jpg",                      tag |-> "backdrop"],
       [file |-> "knife_handle.jpg",                  tag |-> "knifehandle"],
       [file |-> "stainless.jpg",                     tag |-> "stainless"],
       [file |-> "cheddar.jpg",                       tag |-> "cheddar"],
       [file |-> "circular-brushed-gold-texture.jpg", tag |-> "knifescrew"] >>

\* the loads given up at the first file that does not load
RECURSIVE LoadSceneTexturesFromUntilFailure(_, _, _, _)
LoadSceneTexturesFromUntilFailure(s, decode, clobber, i) ==
    IF s.ub # "none" THEN s
    ELSE IF i <= Len(SceneTextures)
    THEN LET s1 == CreateGLTexture(s, decode[i], SceneTextures[i].tag, clobber)
         IN  IF s1.ret = FALSE
             THEN s1
             ELSE LoadSceneTexturesFromUntilFailure(s1, decode, clobber, i + 1)
    ELSE BindGLTextures(s)

RECURSIVE LoadSceneTexturesFrom(_, _, _, _)
LoadSceneTexturesFrom(s, decode, clobber, i) ==
    IF s.ub # "none" THEN s
    ELSE IF i <= Len(SceneTextures)
    THEN LoadSceneTexturesFrom(
             CreateGLTexture(s, decode[i], SceneTextures[i].tag, clobber),
             decode, clobber, i + 1)
    ELSE BindGLTextures(s)

LoadSceneTextures(s, decode, clobber) ==
    [LoadSceneTexturesFrom(Log(s, "LoadSceneTextures", "none"), decode, clobber, 1)
        EXCEPT !.ret = "void"]

(***************************************************************************)
(* SceneManager::DefineObjectMaterials                                     *)
(***************************************************************************)
goldMaterial ==
    [ ambientColor |-> Vec3(200, 200, 200), ambientStrength |-> 300,
      diffuseColor |-> Vec3(200, 200, 200), specularColor |-> Vec3(500, 500, 500),
      shininess |-> 22000, tag |-> "metal" ]

woodMaterial ==
    [ ambientColor |-> Vec3(100, 100, 100), ambientStrength |-> 200,
      diffuseColor |-> Vec3(300, 300, 300), specularColor |-> Vec3(100, 100, 100),
      shininess |-> 300, tag |-> "wood" ]

glassMaterial ==
    [ ambientColor |-> Vec3(400, 400, 400), ambientStrength |-> 300,
      diffuseColor |-> Vec3(300, 300, 300), specularColor |-> Vec3(600, 600, 600),
      shininess |-> 85000, tag |-> "glass" ]

cheeseMaterial ==
    [ ambientColor |-> Vec3(100, 100, 100), ambientStrength |-> 200,
      diffuseColor |-> Vec3(500, 500, 500), specularColor |-> Vec3(100, 100, 100),
      shininess |-> 300, tag |-> "cheese" ]

backdropMaterial ==
    [ ambientColor |-> Vec3(600, 600, 600), ambientStrength |-> 3000,
      diffuseColor |-> Vec3(600, 500, 100), specularColor |-> Vec3(0, 0, 0),
      shininess |-> 0, tag |-> "backdrop" ]

DefineObjectMaterials(s) ==
    [Log(s, "DefineObjectMaterials", "none")
        EXCEPT !.m_objectMaterials =
                   @ \o <<goldMaterial, woodMaterial, glassMaterial,
                          cheeseMaterial, backdropMaterial>>,
               !.ret = "void"]

(***************************************************************************)
(* SceneManager::SetTransformations.  The matrix written to the model      *)
(* uniform is the product translation * rotationX * rotationY * rotationZ  *)
(* * scale, kept as the sequence of its factors, left to right; angles are *)
(* in thousandths of a degree.                                             *)
(***************************************************************************)
Translate(v) == [kind |-> "translate", by |-> v]

Rotate(degrees, axis) == [kind |-> "rotate", by |-> degrees, axis |-> axis]

Scale(v) == [kind |-> "scale", by |-> v]

\* the product with the three rotations in the order Z, Y, X
SetTransformationsZYX(s, scaleXYZ, XrotationDegrees, YrotationDegrees, ZrotationDegrees, positionXYZ) ==
    LET scale == Scale(scaleXYZ)
        rotationX == Rotate(XrotationDegrees, Vec3(1000, 0, 0))
        rotationY == Rotate(YrotationDegrees, Vec3(0, 1000, 0))
        rotationZ == Rotate(ZrotationDegrees, Vec3(0, 0, 1000))
        translation == Translate(positionXYZ)
        modelView == <<translation, rotationZ, rotationY, rotationX, scale>>
        s0 == Log(s, "SetTransformations", modelView)
    IN  IF s0.m_pShaderManager # "NULL"
        THEN [s0 EXCEPT !.uniforms.model = modelView, !.ret = "void"]
        ELSE [s0 EXCEPT !.ret = "void"]

SetTransformations(s, scaleXYZ, XrotationDegrees, YrotationDegrees, ZrotationDegrees, positionXYZ) ==
    LET scale == Scale(scaleXYZ)
        rotationX == Rotate(XrotationDegrees, Vec3(1000, 0, 0))
        rotationY == Rotate(YrotationDegrees, Vec3(0, 1000, 0))
        rotationZ == Rotate(ZrotationDegrees, Vec3(0, 0, 1000))
        translation == Translate(positionXYZ)
        modelView == <<translation, rotationX, rotationY, rotationZ, scale>>
        s0 == Log(s, "SetTransformations", modelView)
    IN  IF s0.m_pShaderManager # "NULL"
        THEN [s0 EXCEPT !.uniforms.model = modelView, !.ret = "void"]
        ELSE [s0 EXCEPT !.ret = "void"]

(***************************************************************************)
(* The value of the product SetTransformations writes, for angles that are *)
(* multiples of 90 degrees.  A matrix is the sequence of its four rows,    *)
(* its entries in thousandths like every other float of the model.         *)
(***************************************************************************)
\* cos and sin of an angle given in thousandths of a degree, a multiple of 90
Cos(degrees) ==
    CASE degrees % 360000 = 0      -> 1000
      [] degrees % 360000 = 90000  -> 0
      [] degrees % 360000 = 180000 -> -1000
      [] degrees % 360000 = 270000 -> 0

Sin(degrees) ==
    CASE degrees % 360000 = 0      -> 0
      [] degrees % 360000 = 90000  -> 1000
      [] degrees % 360000 = 180000 -> 0
      [] degrees % 360000 = 270000 -> -1000

\* the mat4 glm::translate, glm::rotate and glm::scale build
Mat4(factor) ==
    LET c == Cos(factor.by)
        n == Sin(factor.by)
    IN  CASE factor.kind = "translate" ->
               << <<1000, 0, 0, factor.by[1]>>,
                  <<0, 1000, 0, factor.by[2]>>,
                  <<0, 0, 1000, factor.by[3]>>,
                  <<0, 0, 0, 1000>> >>
          [] factor.kind = "scale" ->
               << <<factor.by[1], 0, 0, 0>>,
                  <<0, factor.by[2], 0, 0>>,
                  <<0, 0, factor.by[3], 0>>,
                  <<0, 0, 0, 1000>> >>
          [] factor.kind = "rotate" /\ factor.axis = Vec3(1000, 0, 0) ->
               << <<1000, 0, 0, 0>>,
                  <<0, c, -n, 0>>,
                  <<0, n, c, 0>>,
                  <<0, 0, 0, 1000>> >>
          [] factor.kind = "rotate" /\ factor.axis = Vec3(0, 1000, 0) ->
               << <<c, 0, n, 0>>,
                  <<0, 1000, 0, 0>>,
                  <<-n, 0, c, 0>>,
                  <<0, 0, 0, 1000>> >>
          [] factor.kind = "rotate" /\ factor.axis = Vec3(0, 0, 1000) ->
               << <<c, -n, 0, 0>>,
                  <<n, c, 0, 0>>,
                  <<0, 0, 1000, 0>>,
                  <<0, 0, 0, 1000>> >>

\* operator* of two mat4
MatMul(a, b) ==
    [i \in 1..4 |-> [j \in 1..4 |->
        (a[i][1] * b[1][j] + a[i][2] * b[2][j] + a[i][3] * b[3][j] + a[i][4] * b[4][j]) \div 1000]]

\* the product of the factors, taken from the left as the expression is
RECURSIVE MatProduct(_)
MatProduct(factors) ==
    IF Len(factors) = 1 THEN Mat4(factors[1])
    ELSE MatMul(MatProduct(SubSeq(factors, 1, Len(factors) - 1)), Mat4(factors[Len(factors)]))

\* the point a mat4 maps the point p to
MatApply(m, p) ==
    [i \in 1..3 |-> (m[i][1] * p[1] + m[i][2] * p[2] + m[i][3] * p[3] + m[i][4] * 1000) \div 1000]

(***************************************************************************)
(* SceneManager::SetupSceneLights.  Every write goes through               *)
(* m_pShaderManager without a NULL test.                                   *)
(***************************************************************************)
SceneLights ==
    << [ position |-> Vec3(-2000, 8000, 6000), ambientColor |-> Vec3(400, 400, 400),
         diffuseColor |-> Vec3(1200, 1200, 1000), specularColor |-> Vec3(800, 800, 800),
         focalStrength |-> 16000, specularIntensity |-> 600 ],
       [ position |-> Vec3(4000, 6000, 8000), ambientColor |-> Vec3(300, 300, 300),
         diffuseColor |-> Vec3(800, 800, 900), specularColor |-> Vec3(500, 500, 600),
         focalStrength |-> 20000, specularIntensity |-> 400 ],
       [ position |-> Vec3(0, 10000, 15000), ambientColor |-> Vec3(800, 800, 800),
         diffuseColor |-> Vec3(2000, 2000, 1800), specularColor |-> Vec3(300, 300, 300),
         focalStrength |-> 8000, specularIntensity |-> 300 ] >>

SetupSceneLights(s) ==
    LET s0 == Log(s, "SetupSceneLights", "none")
    IN  IF s0.m_pShaderManager # "NULL"
        THEN [s0 EXCEPT !.uniforms.bUseLighting = 1,
                        !.uniforms.lightSources = [i \in 0..2 |-> SceneLights[i + 1]],
                        !.ret = "void"]
        ELSE [s0 EXCEPT !.ub = "null_dereference"]

(***************************************************************************)
(* The calls into ShapeMeshes                                              *)
(***************************************************************************)
LoadMesh(s, name) == [Log(s, name, "none") EXCEPT !.m_basicMeshes = Append(@, name)]

DrawMesh(s, name, flags) == Log(s, name, flags)

(***************************************************************************)
(* SceneManager::PrepareScene                                              *)
(***************************************************************************)
SceneMeshes ==
    << "LoadBoxMesh", "LoadPlaneMesh", "LoadCylinderMesh", "LoadConeMesh",
       "LoadPrismMesh", "LoadPyramid4Mesh", "LoadSphereMesh",
       "LoadTaperedCylinderMesh", "LoadTorusMesh" >>

RECURSIVE LoadMeshesFrom(_, _)
LoadMeshesFrom(s, i) ==
    IF i <= Len(SceneMeshes)
    THEN LoadMeshesFrom(LoadMesh(s, SceneMeshes[i]), i + 1)
    ELSE s

PrepareScene(s, decode, clobber) ==
    LET s0 == Log(s, "PrepareScene", "none")
        s1 == LoadSceneTextures(s0, decode, clobber)
        s2 == Step(s1, LAMBDA x : DefineObjectMaterials(x))
        s3 == Step(s2, LAMBDA x : SetupSceneLights(x))
    IN  Step(s3, LAMBDA x : LoadMeshesFrom(x, 1))

(***************************************************************************)
(* SceneManager::RenderBook, RenderTable, RenderBackdrop,                  *)
(* RenderCheeseWheel, RenderWineGlass, RenderWineBottle.  uninit is the    *)
(* indeterminate value of the local of SetShaderMaterial.                  *)
(***************************************************************************)
RenderBook(s, uninit) ==
    LET s0 == Log(s, "RenderBook", "none")
        s1 == Step(s0, LAMBDA x : SetTransformations(x, Vec3(2200, 80, 1500), 0, -12000, 0, Vec3(-1200, 590, 300)))
        s2 == Step(s1, LAMBDA x : SetShaderColor(x, <<1000, 500, 100, 1000>>))
        s3 == Step(s2, LAMBDA x : SetShaderMaterial(x, "wood", uninit))
        s4 == Step(s3, LAMBDA x : DrawMesh(x, "DrawBoxMesh", <<>>))
        s5 == Step(s4, LAMBDA x : SetTransformations(x, Vec3(80, 80, 1500), 0, -12000, 0, Vec3(-2300, 590, 300)))
        s6 == Step(s5, LAMBDA x : SetShaderColor(x, <<900, 400, 50, 1000>>))
        s7 == Step(s6, LAMBDA x : SetShaderMaterial(x, "wood", uninit))
        s8 == Step(s7, LAMBDA x : DrawMesh(x, "DrawBoxMesh", <<>>))
        s9 == Step(s8, LAMBDA x : SetTransformations(x, Vec3(2150, 60, 1450), 0, -12000, 0, Vec3(-1200, 570, 300)))
        s10 == Step(s9, LAMBDA x : SetShaderColor(x, <<950, 950, 900, 1000>>))
        s11 == Step(s10, LAMBDA x : SetShaderMaterial(x, "wood", uninit))
        s12 == Step(s11, LAMBDA x : DrawMesh(x, "DrawBoxMesh", <<>>))
    IN  s12

RenderTable(s, uninit) ==
    LET s0 == Log(s, "RenderTable", "none")
        s1 == Step(s0, LAMBDA x : SetTransformations(x, Vec3(20000, 600, 8000), 0, 0, 0, Vec3(0, 200, -900)))
        s2 == Step(s1, LAMBDA x : SetShaderTexture(x, "table"))
        s3 == Step(s2, LAMBDA x : SetTextureUVScale(x, <<1000, 1000>>))
        s4 == Step(s3, LAMBDA x : SetShaderMaterial(x, "wood", uninit))
        s5 == Step(s4, LAMBDA x : DrawMesh(x, "DrawBoxMesh", <<>>))
    IN  s5

RenderBackdrop(s, uninit) ==
    LET s0 == Log(s, "RenderBackdrop", "none")
        s1 == Step(s0, LAMBDA x : SetTransformations(x, Vec3(20000, 1000, 20000), 90000, 0, 0, Vec3(0, 15000, -10000)))
        s2 == Step(s1, LAMBDA x : SetShaderColor(x, <<750, 750, 750, 1000>>))
        s3 == Step(s2, LAMBDA x : DrawMesh(x, "DrawPlaneMesh", <<>>))
    IN  s3

\* the routine asking for the top texture by the name of its file
RenderCheeseWheelByFileName(s, uninit) ==
    LET s0 == Log(s, "RenderCheeseWheel", "none")
        s1 == Step(s0, LAMBDA x : SetTransformations(x, Vec3(1100, 800, 900), 0, 0, 0, Vec3(-1000, 1400, 0)))
        s2 == Step(s1, LAMBDA x : SetShaderTexture(x, "cheese_wheel_side"))
        s3 == Step(s2, LAMBDA x : SetTextureUVScale(x, <<5000, 1000>>))
        s4 == Step(s3, LAMBDA x : SetShaderMaterial(x, "cheese", uninit))
        s5 == Step(s4, LAMBDA x : DrawMesh(x, "DrawCylinderMesh", <<FALSE, FALSE, TRUE>>))
        s6 == Step(s5, LAMBDA x : SetShaderTexture(x, "cheese_top"))
        s7 == Step(s6, LAMBDA x : SetTextureUVScale(x, <<1000, 1000>>))
        s8 == Step(s7, LAMBDA x : DrawMesh(x, "DrawCylinderMesh", <<TRUE, FALSE, FALSE>>))
    IN  s8

RenderCheeseWheel(s, uninit) ==
    LET s0 == Log(s, "RenderCheeseWheel", "none")
        s1 == Step(s0, LAMBDA x : SetTransformations(x, Vec3(1100, 800, 900), 0, 0, 0, Vec3(-1000, 1400, 0)))
        s2 == Step(s1, LAMBDA x : SetShaderTexture(x, "cheese_wheel_side"))
        s3 == Step(s2, LAMBDA x : SetTextureUVScale(x, <<5000, 1000>>))
        s4 == Step(s3, LAMBDA x : SetShaderMaterial(x, "cheese", uninit))
        s5 == Step(s4, LAMBDA x : DrawMesh(x, "DrawCylinderMesh", <<FALSE, FALSE, TRUE>>))
        s6 == Step(s5, LAMBDA x : SetShaderTexture(x, "cheese_wheel_top"))
        s7 == Step(s6, LAMBDA x : SetTextureUVScale(x, <<1000, 1000>>))
        s8 == Step(s7, LAMBDA x : DrawMesh(x, "DrawCylinderMesh", <<TRUE, FALSE, FALSE>>))
    IN  s8

RenderWineGlass(s, uninit) ==
    LET s0 == Log(s, "RenderWineGlass", "none")
        s1 == Step(s0, LAMBDA x : SetTransformations(x, Vec3(1000, 2000, 1000), 0, 0, 0, Vec3(6000, 1500, -1500)))
        s2 == Step(s1, LAMBDA x : SetShaderColor(x, <<700, 700, 800, 300>>))
        s3 == Step(s2, LAMBDA x : SetShaderMaterial(x, "glass", uninit))
        s4 == Step(s3, LAMBDA x : DrawMesh(x, "DrawCylinderMesh", <<FALSE, FALSE, TRUE>>))
        s5 == Step(s4, LAMBDA x : SetTransformations(x, Vec3(1000, 100, 1000), 0, 0, 0, Vec3(6000, 550, -1500)))
        s6 == Step(s5, LAMBDA x : SetShaderColor(x, <<700, 700, 800, 300>>))
        s7 == Step(s6, LAMBDA x : SetShaderMaterial(x, "glass", uninit))
        s8 == Step(s7, LAMBDA x : DrawMesh(x, "DrawCylinderMesh", <<TRUE, FALSE, FALSE>>))
    IN  s8

RenderWineBottle(s, uninit) ==
    LET s0 == Log(s, "RenderWineBottle", "none")
        s1 == Step(s0, LAMBDA x : SetTransformations(x, Vec3(900, 300, 900), 0, 0, 180000, Vec3(4000, 900, -2600)))
        s2 == Step(s1, LAMBDA x : SetShaderColor(x, <<60, 70, 60, 1000>>))
        s3 == Step(s2, LAMBDA x : SetShaderMaterial(x, "glass", uninit))
        s4 == Step(s3, LAMBDA x : DrawMesh(x, "DrawHalfSphereMesh", <<>>))
        s5 == Step(s4, LAMBDA x : SetTransformations(x, Vec3(900, 4000, 900), 0, 0, 0, Vec3(4000, 900, -2600)))
        s6 == Step(s5, LAMBDA x : SetShaderColor(x, <<60, 70, 60, 1000>>))
        s7 == Step(s6, LAMBDA x : SetShaderMaterial(x, "glass", uninit))
        s8 == Step(s7, LAMBDA x : DrawMesh(x, "DrawCylinderMesh", <<FALSE, FALSE, TRUE>>))
        s9 == Step(s8, LAMBDA x : SetTransformations(x, Vec3(905, 900, 905), 0, -6000, 0, Vec3(4000, 4900, -2600)))
        s10 == Step(s9, LAMBDA x : SetShaderColor(x, <<60, 70, 60, 1000>>))
        s11 == Step(s10, LAMBDA x : SetShaderMaterial(x, "glass", uninit))
        s12 == Step(s11, LAMBDA x : DrawMesh(x, "DrawHalfSphereMesh", <<>>))
        s13 == Step(s12, LAMBDA x : SetTransformations(x, Vec3(300, 2000, 300), 0, 0, 0, Vec3(4000, 5600, -2600)))
        s14 == Step(s13, LAMBDA x : SetShaderColor(x, <<60, 70, 60, 1000>>))
        s15 == Step(s14, LAMBDA x : SetShaderMaterial(x, "glass", uninit))
        s16 == Step(s15, LAMBDA x : DrawMesh(x, "DrawCylinderMesh", <<FALSE, FALSE, TRUE>>))
        s17 == Step(s16, LAMBDA x : SetTransformations(x, Vec3(320, 320, 1500), 90000, 0, 0, Vec3(-1800, 7400, -2600)))
        s18 == Step(s17, LAMBDA x : SetShaderColor(x, <<60, 70, 60, 1000>>))
        s19 == Step(s18, LAMBDA x : SetShaderMaterial(x, "glass", uninit))
        s20 == Step(s19, LAMBDA x : DrawMesh(x, "DrawTorusMesh", <<>>))
        s21 == Step(s20, LAMBDA x : SetTransformations(x, Vec3(280, 280, 400), 90000, 0, 0, Vec3(-1800, 7600, -2600)))
        s22 == Step(s21, LAMBDA x : SetShaderColor(x, <<60, 70, 60, 1000>>))
        s23 == Step(s22, LAMBDA x : SetShaderMaterial(x, "glass", uninit))
        s24 == Step(s23, LAMBDA x : DrawMesh(x, "DrawTorusMesh", <<>>))
    IN  s24
(***************************************************************************)
(* SceneManager::RenderScene                                               *)
(***************************************************************************)
\* the pass with the book drawn before the cheese wheel
RenderSceneBookFirst(s, uninit) ==
    LET s0 == Log(s, "RenderScene", "none")
        s1 == Step(s0, LAMBDA x : RenderTable(x, uninit))
        s2 == Step(s1, LAMBDA x : RenderBackdrop(x, uninit))
        s3 == Step(s2, LAMBDA x : RenderBook(x, uninit))
        s4 == Step(s3, LAMBDA x : RenderCheeseWheel(x, uninit))
        s5 == Step(s4, LAMBDA x : RenderWineGlass(x, uninit))
    IN  Step(s5, LAMBDA x : RenderWineBottle(x, uninit))

RenderScene(s, uninit) ==
    LET s0 == Log(s, "RenderScene", "none")
        s1 == Step(s0, LAMBDA x : RenderTable(x, uninit))
        s2 == Step(s1, LAMBDA x : RenderBackdrop(x, uninit))
        s3 == Step(s2, LAMBDA x : RenderCheeseWheel(x, uninit))
        s4 == Step(s3, LAMBDA x : RenderBook(x, uninit))
        s5 == Step(s4, LAMBDA x : RenderWineGlass(x, uninit))
    IN  Step(s5, LAMBDA x : RenderWineBottle(x, uninit))

(***************************************************************************)
(* SceneManager::~SceneManager                                             *)
(***************************************************************************)
Destructor(s) ==
    LET s0 == [Log(s, "~SceneManager", "none") EXCEPT !.m_pShaderManager = "NULL",
                                                      !.m_basicMeshes = "NULL"]
    IN  DestroyGLTextures(s0)

\* values the uninitialised local of SetShaderMaterial may hold
UninitMaterials ==
    { ZeroMaterial,
      [ ambientColor |-> Vec3(-7, 13, 99), ambientStrength |-> -1,
        diffuseColor |-> Vec3(8, -8, 8), specularColor |-> Vec3(1, 2, 3),
        shininess |-> 12345 ] }

\* values m_loadedTextures may hold after the write past the end of m_textureIDs
ClobberedCounts == 0..(TextureSlots + 1)

Init ==
    /\ \E p \in {"NULL", "shader"} : SceneManager(p)
    /\ uniforms = InitUniforms
    /\ gl = InitGL
    /\ ub = "none"
    /\ trace = << >>
    /\ call = Called("SceneManager", "none", 0, "void", "none")
    /\ okLoads = << >>
    /\ destroyed = FALSE
    /\ decoded = << >>
    /\ pc = "constructed"

(***************************************************************************)
(* The calls a client of the class makes, one method per action            *)
(***************************************************************************)
Running == ub = "none"

CallCreateGLTexture(channels, tag, clobber) ==
    /\ Running
    /\ LET s == CreateGLTexture(State, channels, tag, clobber)
       IN  /\ Becomes(s)
           /\ call' = Called("CreateGLTexture", tag, channels, s.ret, "none")
    /\ okLoads' = IF channels \in {3, 4}
                  THEN Append(okLoads, <<tag, GenName(State)>>)
                  ELSE okLoads
    /\ UNCHANGED <<destroyed, decoded, pc>>

CallBindGLTextures ==
    /\ Running
    /\ Becomes(BindGLTextures(State))
    /\ call' = Called("BindGLTextures", "none", 0, "void", "none")
    /\ UNCHANGED <<okLoads, destroyed, decoded, pc>>

CallDestroyGLTextures ==
    /\ Running
    /\ Becomes(DestroyGLTextures(State))
    /\ call' = Called("DestroyGLTextures", "none", 0, "void", "none")
    /\ destroyed' = TRUE
    /\ UNCHANGED <<okLoads, decoded, pc>>

CallFindTextureID(tag) ==
    /\ Running
    /\ Becomes(Log(State, "FindTextureID", tag))
    /\ call' = Called("FindTextureID", tag, 0, FindTextureID(State, tag), "none")
    /\ UNCHANGED <<okLoads, destroyed, decoded, pc>>

CallFindTextureSlot(tag) ==
    /\ Running
    /\ Becomes(Log(State, "FindTextureSlot", tag))
    /\ call' = Called("FindTextureSlot", tag, 0, FindTextureSlot(State, tag), "none")
    /\ UNCHANGED <<okLoads, destroyed, decoded, pc>>

CallFindMaterial(tag, material) ==
    /\ Running
    /\ Becomes(Log(State, "FindMaterial", tag))
    /\ LET found == FindMaterial(State, tag, material)
       IN  call' = Called("FindMaterial", tag, 0, found.ret, found.material)
    /\ UNCHANGED <<okLoads, destroyed, decoded, pc>>

CallSetShaderColor(color) ==
    /\ Running
    /\ Becomes(SetShaderColor(State, color))
    /\ call' = Called("SetShaderColor", "none", 0, "void", "none")
    /\ UNCHANGED <<okLoads, destroyed, decoded, pc>>

CallSetShaderTexture(tag) ==
    /\ Running
    /\ Becomes(SetShaderTexture(State, tag))
    /\ call' = Called("SetShaderTexture", tag, 0, "void", "none")
    /\ UNCHANGED <<okLoads, destroyed, decoded, pc>>

CallSetTextureUVScale(uv) ==
    /\ Running
    /\ Becomes(SetTextureUVScale(State, uv))
    /\ call' = Called("SetTextureUVScale", "none", 0, "void", "none")
    /\ UNCHANGED <<okLoads, destroyed, decoded, pc>>

CallSetShaderMaterial(tag, uninit) ==
    /\ Running
    /\ Becomes(SetShaderMaterial(State, tag, uninit))
    /\ call' = Called("SetShaderMaterial", tag, 0, "void", "none")
    /\ UNCHANGED <<okLoads, destroyed, decoded, pc>>

CallDefineObjectMaterials ==
    /\ Running
    /\ Becomes(DefineObjectMaterials(State))
    /\ call' = Called("DefineObjectMaterials", "none", 0, "void", "none")
    /\ UNCHANGED <<okLoads, destroyed, decoded, pc>>

(***************************************************************************)
(* Spec: a client of the texture registry calling its methods in any       *)
(* order, while glGenTextures has names left below MaxNames                *)
(***************************************************************************)
\* the write is past the end only when every slot is in use
Clobbers == IF m_loadedTextures < TextureSlots THEN {m_loadedTextures + 1} ELSE ClobberedCounts

NamesLeft(n, max) == gl.nextName + n - 1 <= max

Next ==
    \/ \E channels \in DecodeOutcomes, tag \in LoadTags, clobber \in Clobbers :
           /\ NamesLeft(1, MaxNames)
           /\ CallCreateGLTexture(channels, tag, clobber)
    \/ CallBindGLTextures
    \/ /\ NamesLeft(m_loadedTextures, MaxNames)
       /\ CallDestroyGLTextures
    \/ \E tag \in QueryTags : CallFindTextureID(tag)
    \/ \E tag \in QueryTags : CallFindTextureSlot(tag)

Spec == Init /\ [][Next]_vars

(***************************************************************************)
(* SpecBridge: a client of the shader bridge calling its methods in any    *)
(* order, after any loads and with or without the materials defined        *)
(***************************************************************************)
NextBridge ==
    \/ \E channels \in {0, 3}, tag \in LoadTags, clobber \in Clobbers :
           /\ NamesLeft(1, BridgeNames)
           /\ CallCreateGLTexture(channels, tag, clobber)
    \/ /\ Len(m_objectMaterials) < 5 * MaxDefines
       /\ CallDefineObjectMaterials
    \/ \E tag \in QueryTags, material \in UninitMaterials : CallFindMaterial(tag, material)
    \/ \E color \in Colors : CallSetShaderColor(color)
    \/ \E tag \in QueryTags : CallSetShaderTexture(tag)
    \/ \E uv \in UVScales : CallSetTextureUVScale(uv)
    \/ \E tag \in QueryTags, uninit \in UninitMaterials : CallSetShaderMaterial(tag, uninit)

SpecBridge == Init /\ [][NextBridge]_vars

(***************************************************************************)
(* SpecCap: a client that loads textures until the slots run out, while    *)
(* glGenTextures has names left below CapNames                             *)
(***************************************************************************)
NextCap ==
    \/ \E channels \in {0, 3}, clobber \in Clobbers :
           /\ NamesLeft(1, CapNames)
           /\ CallCreateGLTexture(channels, "table", clobber)
    \/ \E tag \in QueryTags : CallFindTextureSlot(tag)

SpecCap == Init /\ [][NextCap]_vars

(***************************************************************************)
(* SpecRun: the life of the object in the program: constructed, the scene  *)
(* prepared once, any number of render passes, destroyed.  Each of the     *)
(* nine image files decodes or not, with any outcome of RunOutcomes.       *)
(***************************************************************************)
\* the successful loads among the files i..9 when glGenTextures is at name
RECURSIVE RunLoads(_, _, _)
RunLoads(decode, i, name) ==
    IF i > Len(SceneTextures) THEN << >>
    ELSE IF decode[i] = 0 THEN RunLoads(decode, i + 1, name)
    ELSE IF decode[i] \in {3, 4}
         THEN <<<<SceneTextures[i].tag, name>>>> \o RunLoads(decode, i + 1, name + 1)
         ELSE RunLoads(decode, i + 1, name + 1)

CallPrepareScene(decode) ==
    /\ Running
    /\ pc = "constructed"
    /\ Becomes(PrepareScene(State, decode, m_loadedTextures + 1))
    /\ call' = Called("PrepareScene", "none", 0, "void", "none")
    /\ okLoads' = okLoads \o RunLoads(decode, 1, GenName(State))
    /\ decoded' = decode
    /\ pc' = "prepared"
    /\ UNCHANGED destroyed

CallRenderScene(uninit) ==
    /\ Running
    /\ pc = "prepared"
    /\ Becomes(RenderScene(State, uninit))
    /\ call' = Called("RenderScene", "none", 0, "void", "none")
    /\ UNCHANGED <<okLoads, destroyed, decoded, pc>>

CallDestructor ==
    /\ Running
    /\ pc # "destroyed"
    /\ Becomes(Destructor(State))
    /\ call' = Called("~SceneManager", "none", 0, "void", "none")
    /\ destroyed' = TRUE
    /\ pc' = "destroyed"
    /\ UNCHANGED <<okLoads, decoded>>

(***************************************************************************)
(* The transformation specification: SetTransformations on angles that are *)
(* multiples of 90 degrees and whole scales and positions.                 *)
(***************************************************************************)
TransformAngles == {-90000, 0, 90000, 180000}

TransformScales == {Vec3(1000, 1000, 1000), Vec3(2000, 1000, 1000), Vec3(1000, 2000, 3000)}

TransformPositions == {Vec3(0, 0, 0), Vec3(1000, -2000, 3000)}

CallSetTransformations(scaleXYZ, XrotationDegrees, YrotationDegrees, ZrotationDegrees, positionXYZ) ==
    /\ Running
    /\ Becomes(SetTransformations(State, scaleXYZ, XrotationDegrees, YrotationDegrees, ZrotationDegrees, positionXYZ))
    /\ call' = Called("SetTransformations", "none", 0, "void",
                      <<scaleXYZ, XrotationDegrees, YrotationDegrees, ZrotationDegrees, positionXYZ>>)
    /\ UNCHANGED <<okLoads, destroyed, decoded, pc>>

NextTransform ==
    \E scaleXYZ \in TransformScales, positionXYZ \in TransformPositions :
        \E x \in TransformAngles, y \in TransformAngles, z \in TransformAngles :
            CallSetTransformations(scaleXYZ, x, y, z, positionXYZ)

SpecTransform == Init /\ [][NextTransform]_vars

NextRun ==
    \/ \E decode \in [1..Len(SceneTextures) -> RunOutcomes] : CallPrepareScene(decode)
    \/ \E uninit \in UninitMaterials : CallRenderScene(uninit)
    \/ CallDestructor

SpecRun == Init /\ [][NextRun]_vars

(***************************************************************************)
(* SpecFrame: the scene prepared once, then render passes and calls of the *)
(* lookups, of BindGLTextures and of the shader bridge in any order        *)
(***************************************************************************)
\* outcomes of the nine loads: all loaded, or one file missing
FrameDecodes ==
    { [i \in 1..Len(SceneTextures) |-> 3],
      [i \in 1..Len(SceneTextures) |-> IF i = 1 THEN 0 ELSE 3] }

FrameTags == {"table", "wood"}

Prepared == pc = "prepared"

NextFrame ==
    \/ \E decode \in FrameDecodes : CallPrepareScene(decode)
    \/ \E uninit \in UninitMaterials : CallRenderScene(uninit)
    \/ Prepared /\ CallBindGLTextures
    \/ \E tag \in FrameTags : Prepared /\ CallFindTextureID(tag)
    \/ \E tag \in FrameTags : Prepared /\ CallFindTextureSlot(tag)
    \/ \E tag \in FrameTags : Prepared /\ CallFindMaterial(tag, ZeroMaterial)
    \/ Prepared /\ CallSetTransformations(Vec3(2000, 1000, 1000), 0, 90000, 0, Vec3(0, 0, 0))
    \/ \E color \in Colors : Prepared /\ CallSetShaderColor(color)
    \/ \E tag \in FrameTags : Prepared /\ CallSetShaderTexture(tag)
    \/ \E uv \in UVScales : Prepared /\ CallSetTextureUVScale(uv)
    \/ \E tag \in FrameTags : Prepared /\ CallSetShaderMaterial(tag, ZeroMaterial)

SpecFrame == Init /\ [][NextFrame]_vars

(***************************************************************************)
(* Properties of the texture registry                                      *)
(***************************************************************************)
IsFind == call.op \in {"FindTextureID", "FindTextureSlot"}

\* positions in okLoads of the successful loads made under tag
LoadsOf(tag) == {i \in 1..Len(okLoads) : okLoads[i][1] = tag}

\* slots that carry tag
SlotsOf(tag) == {i \in 0..(m_loadedTextures - 1) : m_textureIDs[i].tag = tag}

\* C1: while only loads have been made, FindTextureSlot(tag) returns the
\* 0-based position, among the successful loads, of the first successful load
\* made under tag, and FindTextureID(tag) returns the name glGenTextures gave
\* that load.
C1_FindAfterLoad ==
    (ub = "none" /\ ~destroyed /\ IsFind /\ LoadsOf(call.tag) # {}) =>
        LET first == Min(LoadsOf(call.tag))
        IN  /\ call.op = "FindTextureSlot" => call.ret = first - 1
            /\ call.op = "FindTextureID" => call.ret = okLoads[first][2]

\* a lookup of the tag of the second successful load, made after a load that
\* failed on its channel count had used up a texture name
C1_Witness ==
    /\ call.op = "FindTextureID"
    /\ ~destroyed
    /\ Len(okLoads) >= 2
    /\ okLoads[1][1] # call.tag
    /\ okLoads[2] = <<call.tag, 3>>
    /\ call.ret = 3

\* C2: m_loadedTextures never exceeds the 16 slots of m_textureIDs and no
\* slot outside 0..15 is written.
C2_WithinCapacity ==
    /\ m_loadedTextures <= TextureSlots
    /\ ub # "out_of_bounds_write"

\* C3: a FindTextureID or FindTextureSlot call that follows DestroyGLTextures
\* returns -1 for a tag that a successful load had registered.
C3_UnsetAfterDestroy ==
    [][(call.op = "DestroyGLTextures" /\ call'.op \in {"FindTextureID", "FindTextureSlot"}
          /\ LoadsOf(call'.tag) # {})
        => call'.ret = -1]_vars

\* C5: a CreateGLTexture call whose image decodes with a channel count other
\* than 3 or 4 returns false and leaves m_loadedTextures and every slot as
\* they were.
C5_BadChannelsLeaveRegistry ==
    [][(call'.op = "CreateGLTexture" /\ call'.channels \notin {0, 3, 4})
        => /\ call'.ret = FALSE
           /\ m_loadedTextures' = m_loadedTextures
           /\ m_textureIDs' = m_textureIDs]_vars

\* a two-channel image was refused after one texture had been registered
C5_Witness ==
    /\ call.op = "CreateGLTexture"
    /\ call.channels = 2
    /\ call.ret = FALSE
    /\ m_loadedTextures = 1
    /\ gl.nextName = 3

\* C7: FindTextureSlot and FindTextureID return -1 for a tag that no
\* successful load was made under, in every state of the registry.
C7_UnregisteredIsUnset ==
    (IsFind /\ LoadsOf(call.tag) = {}) => call.ret = -1

\* the tag the constructor puts in every slot is looked up while two slots
\* are loaded and fourteen still carry it
C7_Witness ==
    /\ call.op = "FindTextureSlot"
    /\ call.tag = UnsetTag
    /\ call.ret = -1
    /\ m_loadedTextures = 2
    /\ m_textureIDs[2].tag = UnsetTag

\* C8: when two or more successful loads were made under a tag,
\* FindTextureSlot returns the smallest slot that carries the tag and
\* FindTextureID the ID stored in that slot.
C8_FirstMatchWins ==
    (ub = "none" /\ IsFind /\ Cardinality(LoadsOf(call.tag)) >= 2) =>
        LET first == Min(SlotsOf(call.tag))
        IN  /\ call.op = "FindTextureSlot" => call.ret = first
            /\ call.op = "FindTextureID" => call.ret = m_textureIDs[first].ID

\* a tag carried by the slots 1 and 2, but not by slot 0, is looked up
C8_Witness ==
    /\ call.op = "FindTextureID"
    /\ m_loadedTextures >= 3
    /\ SlotsOf(call.tag) = {1, 2}
    /\ call.ret = m_textureIDs[1].ID
    /\ call.ret # m_textureIDs[2].ID

\* C11: a BindGLTextures call leaves every unit i below m_loadedTextures
\* bound to the ID stored in slot i, so that the unit FindTextureSlot names for
\* a loaded tag holds the texture FindTextureID names for it, and leaves the
\* binding of every unit from m_loadedTextures on as it was.
C11_UnitIsSlot ==
    [][call'.op = "BindGLTextures" =>
        /\ \A i \in 0..(TextureSlots - 1) :
               IF i < m_loadedTextures'
               THEN gl'.units[i] = m_textureIDs'[i].ID
               ELSE gl'.units[i] = gl.units[i]
        /\ \A tag \in LoadTags :
               FindTextureSlot(State, tag)' # -1 =>
                   gl'.units[FindTextureSlot(State, tag)'] = FindTextureID(State, tag)']_vars

\* two slots, whose texture names are 1 and 3, are bound to the units 0 and 1,
\* and the tag of slot 1 is not that of slot 0
C11_Witness ==
    /\ call.op = "BindGLTextures"
    /\ m_loadedTextures = 2
    /\ m_textureIDs[0].tag # m_textureIDs[1].tag
    /\ gl.units[0] = 1
    /\ gl.units[1] = 3
    /\ gl.units[2] = 0

(***************************************************************************)
(* Properties of the scene preparation                                     *)
(***************************************************************************)
\* files of LoadSceneTextures that did not decode, and files that loaded
FailedFiles == {i \in 1..Len(decoded) : decoded[i] = 0}

LoadedFiles == {i \in 1..Len(decoded) : decoded[i] \in {3, 4}}

LoadedBefore(i) == Cardinality({j \in LoadedFiles : j < i})

IsLoadEvent(e) == e.name \in {"CreateGLTexture", "return", "BindGLTextures"}

\* C6: once PrepareScene has run, a file that did not decode has no slot and
\* its tag is not found by FindTextureSlot, before and after any render pass;
\* the files that loaded have the slots 0, 1, ... in the order of the loads;
\* and LoadSceneTextures has called CreateGLTexture for each of its nine files,
\* which returned false exactly for the files that did not decode, and
\* BindGLTextures after them.
C6_FailedLoadIsSkipped ==
    pc = "prepared" =>
        /\ m_loadedTextures = Cardinality(LoadedFiles)
        /\ \A i \in LoadedFiles :
               m_textureIDs[LoadedBefore(i)].tag = SceneTextures[i].tag
        /\ \A i \in FailedFiles :
               FindTextureSlot(State, SceneTextures[i].tag) = -1
        /\ call.op = "PrepareScene" =>
               LET calls == SelectSeq(trace, IsLoadEvent)
               IN  /\ Len(calls) = 2 * Len(SceneTextures) + 1
                   /\ \A i \in 1..Len(SceneTextures) :
                          /\ calls[2 * i - 1].name = "CreateGLTexture"
                          /\ calls[2 * i - 1].arg = SceneTextures[i].tag
                          /\ calls[2 * i].name = "return"
                          /\ calls[2 * i].arg = (i \notin FailedFiles)
                   /\ calls[2 * Len(SceneTextures) + 1].name = "BindGLTextures"

\* a render pass has run after the second file failed to decode and the
\* first and third loaded: the third file's texture is in slot 1
C6_Witness ==
    /\ pc = "prepared"
    /\ ub = "none"
    /\ call.op = "RenderScene"
    /\ decoded[1] = 3 /\ decoded[2] = 0 /\ decoded[3] = 3
    /\ m_textureIDs[1].tag = "cheese_wheel_top"
    /\ uniforms.objectTexture = 1

(***************************************************************************)
(* Properties of the shader bridge.  The uniforms are those of the shader  *)
(* program behind m_pShaderManager; there are none when it is NULL.        *)
(***************************************************************************)
HasShader == m_pShaderManager # "NULL"

\* positions in m_objectMaterials of the presets that carry tag
PresetsOf(tag) == {i \in 1..Len(m_objectMaterials) : m_objectMaterials[i].tag = tag}

\* C4: a SetShaderMaterial call changes no uniform when m_objectMaterials is
\* empty; when it is not empty and has no preset with the tag, FindMaterial
\* returns true and the call still leaves the five material uniforms as they
\* were.
C4_MissWritesNothing ==
    [][(call'.op = "SetShaderMaterial" /\ PresetsOf(call'.tag) = {})
        => IF Len(m_objectMaterials) = 0
           THEN uniforms' = uniforms
           ELSE /\ FindMaterial(State, call'.tag, ZeroMaterial).ret = TRUE
                /\ uniforms'.material = uniforms.material]_vars

\* C9: with a shader attached, bUseTexture is 0 after every SetShaderColor
\* call and 1 after every SetShaderTexture call.
C9_FlagFollowsLastCall ==
    HasShader =>
        /\ call.op = "SetShaderColor" => uniforms.bUseTexture = 0
        /\ call.op = "SetShaderTexture" => uniforms.bUseTexture = 1

\* SetShaderColor has run after a SetShaderTexture call that had set the flag
\* and selected slot 1
C9_Witness ==
    /\ HasShader
    /\ call.op = "SetShaderColor"
    /\ uniforms.objectTexture = 1
    /\ uniforms.bUseTexture = 0
    /\ uniforms.objectColor \in Colors

\* C10: with a shader attached, SetShaderTexture(tag) leaves in objectTexture
\* the first slot that carries the tag, not the texture name stored there,
\* and -1 when no slot carries it.
C10_SamplerIsSlot ==
    (HasShader /\ call.op = "SetShaderTexture") =>
        IF SlotsOf(call.tag) = {}
        THEN uniforms.objectTexture = -1
        ELSE /\ uniforms.objectTexture = Min(SlotsOf(call.tag))
             /\ uniforms.objectTexture # m_textureIDs[Min(SlotsOf(call.tag))].ID

\* the tag of slot 1, whose texture name is 2, was selected
C10_Witness ==
    /\ HasShader
    /\ call.op = "SetShaderTexture"
    /\ m_loadedTextures = 2
    /\ m_textureIDs[0].tag # call.tag
    /\ m_textureIDs[1] = [tag |-> call.tag, ID |-> 2]
    /\ uniforms.objectTexture = 1

(***************************************************************************)
(* Properties of the render pass                                           *)
(***************************************************************************)
RenderRoutines ==
    {"RenderTable", "RenderBackdrop", "RenderCheeseWheel", "RenderBook", "RenderWineGlass", "RenderWineBottle"}

IsDrawEvent(e) ==
    e.name \in {"DrawBoxMesh", "DrawPlaneMesh", "DrawCylinderMesh", "DrawHalfSphereMesh", "DrawTorusMesh"}

IsObjectOrDrawEvent(e) == e.name \in RenderRoutines \/ IsDrawEvent(e)

NamesOf(events) == [i \in 1..Len(events) |-> events[i].name]

\* the objects of a pass and the draws of each, in the order they are made
PassOf(tr) == NamesOf(SelectSeq(tr, IsObjectOrDrawEvent))

\* the mesh draws of a pass, in the order they are made
DrawsOf(tr) == NamesOf(SelectSeq(tr, IsDrawEvent))

\* C12: every RenderScene pass draws the table, the backdrop, the cheese
\* wheel, the book, the wine glass and the wine bottle in this order, the
\* bottle with the six draws half-sphere, cylinder, half-sphere, cylinder,
\* torus, torus, and a pass that follows another pass makes the draws of the
\* one before it, whatever uniforms that one left.
C12_SameDrawsEveryPass ==
    [][call'.op = "RenderScene" =>
        /\ PassOf(trace') =
               << "RenderTable", "DrawBoxMesh",
                  "RenderBackdrop", "DrawPlaneMesh",
                  "RenderCheeseWheel", "DrawCylinderMesh", "DrawCylinderMesh",
                  "RenderBook", "DrawBoxMesh", "DrawBoxMesh", "DrawBoxMesh",
                  "RenderWineGlass", "DrawCylinderMesh", "DrawCylinderMesh",
                  "RenderWineBottle", "DrawHalfSphereMesh", "DrawCylinderMesh",
                  "DrawHalfSphereMesh", "DrawCylinderMesh", "DrawTorusMesh", "DrawTorusMesh" >>
        /\ call.op = "RenderScene" => DrawsOf(trace') = DrawsOf(trace)]_vars

\* a pass of 15 draws was made with the texture of the top of the cheese
\* wheel missing, so that the pass left the sampler uniform at -1
C12_Witness ==
    /\ call.op = "RenderScene"
    /\ Len(DrawsOf(trace)) = 15
    /\ decoded[3] = 0
    /\ uniforms.objectTexture = -1

\* the events of tr made after the draw before the draw at position d, or
\* from the start of the pass for the first draw, and before position d
SinceLastDraw(tr, d) ==
    LET before == {j \in 1..(d - 1) : IsDrawEvent(tr[j])}
        from   == IF before = {} THEN 1 ELSE 1 + CHOOSE j \in before : \A k \in before : k <= j
    IN  {tr[j].name : j \in from..(d - 1)}

\* C13: in a RenderScene pass, between each mesh draw and the draw before it
\* the routine has called SetTransformations, one of SetShaderColor and
\* SetShaderTexture, and SetShaderMaterial.
C13_EveryDrawIsPrepared ==
    call.op = "RenderScene" =>
        \A d \in 1..Len(trace) :
            IsDrawEvent(trace[d]) =>
                /\ "SetTransformations" \in SinceLastDraw(trace, d)
                /\ SinceLastDraw(trace, d) \cap {"SetShaderColor", "SetShaderTexture"} # {}
                /\ "SetShaderMaterial" \in SinceLastDraw(trace, d)

(***************************************************************************)
(* Properties of the transformation                                        *)
(***************************************************************************)
\* the point p turned by a multiple of 90 degrees about the axis X, Y or Z
Turn(axis, degrees, p) ==
    LET c == Cos(degrees) \div 1000
        n == Sin(degrees) \div 1000
    IN  CASE axis = "X" -> <<p[1], c * p[2] - n * p[3], n * p[2] + c * p[3]>>
          [] axis = "Y" -> <<c * p[1] + n * p[3], p[2], c * p[3] - n * p[1]>>
          [] axis = "Z" -> <<c * p[1] - n * p[2], n * p[1] + c * p[2], p[3]>>

\* the point p scaled, then turned about Z, then about Y, then about X, then
\* moved: what Translate * RotateX * RotateY * RotateZ * Scale does to p
Reference(in, p) ==
    LET scaled == <<(in[1][1] * p[1]) \div 1000, (in[1][2] * p[2]) \div 1000, (in[1][3] * p[3]) \div 1000>>
        turned == Turn("X", in[2], Turn("Y", in[3], Turn("Z", in[4], scaled)))
    IN  <<turned[1] + in[5][1], turned[2] + in[5][2], turned[3] + in[5][3]>>

\* the origin and the three unit points, which fix an affine map
ProbePoints == {Vec3(0, 0, 0), Vec3(1000, 0, 0), Vec3(0, 1000, 0), Vec3(0, 0, 1000)}

\* C14: with a shader attached, the matrix SetTransformations leaves in the
\* model uniform maps every point to where scaling it, turning it about Z,
\* about Y and about X and then moving it takes it, the map of
\* Translate * RotateX * RotateY * RotateZ * Scale; for the scale (2,1,1),
\* the rotations (0, 90, 0) and the position (0,0,0) it maps (1,0,0) to
\* (0,0,-2).
C14_ModelIsTRxRyRzS ==
    (call.op = "SetTransformations" /\ HasShader) =>
        /\ \A p \in ProbePoints :
               MatApply(MatProduct(uniforms.model), p) = Reference(call.out, p)
        /\ call.out = <<Vec3(2000, 1000, 1000), 0, 90000, 0, Vec3(0, 0, 0)>> =>
               MatApply(MatProduct(uniforms.model), Vec3(1000, 0, 0)) = Vec3(0, 0, -2000)

\* the call of the example was made, and the uniform maps (1,0,0) to (0,0,-2)
C14_Witness ==
    /\ call.op = "SetTransformations"
    /\ HasShader
    /\ call.out = <<Vec3(2000, 1000, 1000), 0, 90000, 0, Vec3(0, 0, 0)>>
    /\ MatApply(MatProduct(uniforms.model), Vec3(1000, 0, 0)) = Vec3(0, 0, -2000)

(***************************************************************************)
(* Properties of the registries after the preparation                      *)
(***************************************************************************)
ReadOnlyCalls ==
    { "RenderScene", "SetTransformations", "SetShaderColor", "SetShaderTexture",
      "SetTextureUVScale", "SetShaderMaterial", "FindTextureID", "FindTextureSlot",
      "FindMaterial", "BindGLTextures" }

\* C15: a RenderScene pass and a call of SetTransformations, SetShaderColor,
\* SetShaderTexture, SetTextureUVScale, SetShaderMaterial, FindTextureID,
\* FindTextureSlot, FindMaterial or BindGLTextures leave m_loadedTextures,
\* every slot of m_textureIDs and m_objectMaterials as they were.
C15_RegistriesAreReadOnly ==
    [][call'.op \in ReadOnlyCalls =>
        /\ m_loadedTextures' = m_loadedTextures
        /\ m_textureIDs' = m_textureIDs
        /\ m_objectMaterials' = m_objectMaterials]_vars

\* a render pass was made over the nine textures and the five materials
C15_Witness ==
    /\ call.op = "RenderScene"
    /\ m_loadedTextures = 9
    /\ m_textureIDs[8].tag = "knifescrew"
    /\ Len(m_objectMaterials) = 5

(***************************************************************************)
(* Properties of the material lookup                                       *)
(***************************************************************************)
\* the five fields of material are those of the first preset with tag
IsFirstPreset(material, tag) ==
    LET preset == m_objectMaterials[Min(PresetsOf(tag))]
    IN  /\ material.ambientColor = preset.ambientColor
        /\ material.ambientStrength = preset.ambientStrength
        /\ material.diffuseColor = preset.diffuseColor
        /\ material.specularColor = preset.specularColor
        /\ material.shininess = preset.shininess

\* C16: with a shader attached and a preset with the tag in
\* m_objectMaterials, SetShaderMaterial leaves in the five material uniforms
\* the fields of the first preset with that tag; FindMaterial hands out the
\* same fields, and both leave m_objectMaterials as it was.
C16_FirstPresetIsWritten ==
    [][(call'.op \in {"SetShaderMaterial", "FindMaterial"} /\ PresetsOf(call'.tag) # {}) =>
        /\ m_objectMaterials' = m_objectMaterials
        /\ (call'.op = "SetShaderMaterial" /\ HasShader) => IsFirstPreset(uniforms'.material, call'.tag)
        /\ call'.op = "FindMaterial" => IsFirstPreset(call'.out, call'.tag)]_vars

\* the wood preset was written over the junk the local variable held
C16_Witness ==
    /\ call.op = "SetShaderMaterial"
    /\ call.tag = "wood"
    /\ HasShader
    /\ PresetsOf("wood") # {}
    /\ uniforms.material.ambientStrength = 200
    /\ uniforms.material.shininess = 300

(***************************************************************************)
(* Properties of the tags the render pass uses                             *)
(***************************************************************************)
\* the arguments of the calls of the method name in the pass
ArgsOf(tr, name) == {tr[i].arg : i \in {j \in 1..Len(tr) : tr[j].name = name}}

AllLoaded == \A i \in 1..Len(SceneTextures) : decoded[i] \in {3, 4}

\* C17: in a RenderScene pass made after all nine files loaded, the tags
\* given to SetShaderTexture are table, cheese_wheel_side and
\* cheese_wheel_top and each is found in a slot 0..8, the sampler uniform is
\* left in 0..8, and the tags given to SetShaderMaterial are wood, cheese and
\* glass and each has a preset in m_objectMaterials.
C17_RenderTagsResolve ==
    (call.op = "RenderScene" /\ AllLoaded) =>
        /\ ArgsOf(trace, "SetShaderTexture") = {"table", "cheese_wheel_side", "cheese_wheel_top"}
        /\ \A tag \in ArgsOf(trace, "SetShaderTexture") : FindTextureSlot(State, tag) \in 0..8
        /\ uniforms.objectTexture \in 0..8
        /\ ArgsOf(trace, "SetShaderMaterial") = {"wood", "cheese", "glass"}
        /\ \A tag \in ArgsOf(trace, "SetShaderMaterial") : PresetsOf(tag) # {}

\* a pass was made after nine loaded files; it left the slot of the top of
\* the cheese wheel in the sampler and the glass preset in the material
C17_Witness ==
    /\ call.op = "RenderScene"
    /\ AllLoaded
    /\ m_loadedTextures = 9
    /\ uniforms.objectTexture = 2
    /\ uniforms.material.shininess = 85000

====
